---------------------------- MODULE Spec2Model ----------------------------
(***************************************************************************)
(* A model of the Html5Qrcode class of src/html5-qrcode.js: the camera     *)
(* scan life cycle (start, stop, the foreverScan timer loop), the still    *)
(* image path (scanFile), the viewfinder geometry, the containment fit and *)
(* the camera enumeration.                                                 *)
(*                                                                         *)
(* JavaScript runs one task at a time and drains the microtask queue       *)
(* before the next task, so every action below is one task together with  *)
(* the promise reactions it queues.  Numbers are JavaScript numbers; the   *)
(* geometry is modelled with exact rationals <<n, d>>.                     *)
(***************************************************************************)
EXTENDS Integers, Sequences, FiniteSets, TLC

\* ------------------------------------------------------------------ bounds
MaxStarts  == 2   \* start() calls that get past argument validation
MaxTracks  == 2   \* video tracks of one camera stream
MaxReplays == 1   \* 'playing' events after the first one, over all videos
MaxFiles   == 1   \* accepted scanFile() calls
MaxSide    == 4   \* rendered/native video sides and qrbox sizes
MaxDim     == 4   \* image and container sides of the containment fit
MaxDevices == 3   \* devices returned by enumerateDevices

Gens     == 1..MaxStarts
Timers   == 1..(MaxStarts + MaxReplays)   \* one timer chain per 'playing' event
Files    == 1..MaxFiles

\* ------------------------------------------------- JavaScript numbers
RECURSIVE Gcd(_, _)
Gcd(a, b) == IF b = 0 THEN a ELSE Gcd(b, a % b)

Abs(n) == IF n < 0 THEN -n ELSE n

\* the rational n/d in lowest terms with a positive denominator
Rat(n, d) ==
    LET s == IF d < 0 THEN -1 ELSE 1
        g == Gcd(Abs(n), Abs(d))
    IN  <<(s * n) \div g, (s * d) \div g>>

Num(i)     == <<i, 1>>
Add(a, b)  == Rat(a[1] * b[2] + b[1] * a[2], a[2] * b[2])
Sub(a, b)  == Rat(a[1] * b[2] - b[1] * a[2], a[2] * b[2])
Mul(a, b)  == Rat(a[1] * b[1], a[2] * b[2])
Div(a, b)  == Rat(a[1] * b[2], a[2] * b[1])
Leq(a, b)  == a[1] * b[2] <= b[1] * a[2]
Less(a, b) == a[1] * b[2] < b[1] * a[2]

VARIABLES
    qr,              \* the fields of the Html5Qrcode instance
    qrcodeCallback,  \* qrcode.callback of the decoder: 0 (null) or the start() call that set it
    children,        \* the child elements of the container element
    call,            \* per start() call: where its camera request and video are
    promise,         \* per start() call: the state of the promise it returned
    rejection,       \* per start() call: what its promise was rejected with
    tracks,          \* per camera stream: its video tracks not yet stopped
    timers,          \* per timer id: 0, or the start() call whose foreverScan is pending
    replays,         \* 'playing' events seen after a video's first one
    files,           \* per accepted scanFile() call: its image and promise
    stopped,         \* start() calls whose camera stream a stop() call has stopped
    stopRequested,   \* stop() was called after the latest start()
    userMedia,       \* whether the browser has a getUserMedia API
    ev,              \* what the last task did
    geo,             \* viewfinder geometry: inputs and results
    fit,             \* containment fit: inputs and result
    cam,             \* getCameras(): environment and promise
    conf             \* the arguments of one start() call, what it did, its ticks

vars == <<qr, qrcodeCallback, children, call, promise, rejection, tracks, timers, replays,
          files, stopped, stopRequested, userMedia, ev, geo, fit, cam, conf>>

scanVars == <<qr, qrcodeCallback, children, call, promise, rejection, tracks, timers,
              replays, files, stopped, stopRequested, userMedia, ev>>


Canvases == 1..(MaxStarts + MaxReplays)   \* one canvas per setupUi call

\* A reference to a timer that is no longer pending, or to a canvas that is no
\* longer a child of the container, is kept as one value: ids are never reused,
\* so all such references behave alike.
StaleTimer  == Cardinality(Timers) + 1
StaleCanvas == Cardinality(Canvases) + 1
TrackCounts == 1..MaxTracks               \* getUserMedia({video}) yields a video track

\* ---------------------------------------------- the state the code changes
\* Everything one synchronous piece of code can change, as one record, so that
\* a handler is the composition of the functions it calls.
World ==
    [qr |-> qr, cb |-> qrcodeCallback, children |-> children, tracks |-> tracks,
     timers |-> timers, stopped |-> stopped, stopRequested |-> stopRequested]

Install(w) ==
    /\ qr' = w.qr
    /\ qrcodeCallback' = w.cb
    /\ children' = w.children
    /\ tracks' = w.tracks
    /\ timers' = w.timers
    /\ stopped' = w.stopped
    /\ stopRequested' = w.stopRequested

\* the constructor
NewInstance ==
    [isScanning |-> FALSE, shouldScan |-> TRUE, localMediaStream |-> 0,
     foreverScanTimeout |-> 0, videoElement |-> 0, canvasElement |-> 0,
     qrRegion |-> "undefined", context |-> "undefined"]

\* _clearElement(): throws during a scan, else empties the container
clearElement(w) ==
    IF w.qr.isScanning
    THEN [w |-> w, res |-> "throw"]
    ELSE [w |-> [w EXCEPT !.children = {},
                          !.qr.canvasElement = IF @ = 0 THEN 0 ELSE StaleCanvas],
          res |-> "ok"]

\* clearTimeout(id): a fired or cleared id is ignored
clearTimeout(ts, id) ==
    IF id \in Timers THEN [ts EXCEPT ![id] = 0] ELSE ts

FreeTimer(ts) == CHOOSE i \in Timers : ts[i] = 0 /\ \A j \in Timers : j < i => ts[j] # 0

\* $this._foreverScanTimeout = setTimeout(foreverScan, ...) in the closure of call g
setTimeoutForeverScan(w, g) ==
    LET i == FreeTimer(w.timers)
    IN  [w EXCEPT !.timers[i] = g, !.qr.foreverScanTimeout = i]

\* onAllTracksClosed of stop(): removeChild throws for a node that is not a child
onAllTracksClosed(w) ==
    LET w1 == [w EXCEPT !.qr.localMediaStream = 0]
        v  == <<"video", w.qr.videoElement>>
        c  == <<"canvas", w.qr.canvasElement>>
    IN  IF v \notin w1.children THEN [w |-> w1, res |-> "rejected"]
        ELSE IF c \notin w1.children
        THEN [w |-> [w1 EXCEPT !.children = @ \ {v}], res |-> "rejected"]
        ELSE [w |-> [w1 EXCEPT
                       !.children = {e \in @ \ {v, c} : e[1] # "shade"},
                       !.qr.canvasElement = StaleCanvas,
                       !.qr.isScanning = FALSE,
                       !.qr.qrRegion = IF @ = "set" THEN "null" ELSE @,
                       !.qr.context = IF @ = "set" THEN "null" ELSE @],
              res |-> "resolved"]

\* stop(): res is the state of the promise it returns
stop(w) ==
    LET s  == w.qr.localMediaStream
        w1 == [w EXCEPT !.qr.shouldScan = FALSE,
                        !.timers = clearTimeout(@, w.qr.foreverScanTimeout),
                        !.qr.foreverScanTimeout = IF @ = 0 THEN 0 ELSE StaleTimer,
                        !.cb = 0,
                        !.stopped = IF s = 0 THEN @ ELSE @ \cup {s},
                        !.stopRequested = TRUE]
    IN  IF s = 0 THEN [w |-> w1, res |-> "rejected"]
        ELSE onAllTracksClosed([w1 EXCEPT !.tracks[s] = 0])

\* what a callback of the page does when it is invoked
CallbackActs == {"none", "stop", "clear"}

userAct(w, act) ==
    CASE act = "stop"  -> stop(w)
      [] act = "clear" -> clearElement(w)
      [] OTHER         -> [w |-> w, res |-> "ok"]

\* setupUi of start(): a new canvas, the shading elements when shading is applied
FreeCanvas(ch) ==
    CHOOSE c \in Canvases :
        /\ <<"canvas", c>> \notin ch
        /\ \A d \in Canvases : d < c => <<"canvas", d>> \in ch

setupUi(w, shade) ==
    LET c == FreeCanvas(w.children)
    IN  [w EXCEPT !.children = @ \cup {<<"canvas", c>>}
                                 \cup (IF shade THEN {<<"shade", p>> : p \in 1..4} ELSE {}),
                  !.qr.qrRegion = "set",
                  !.qr.context = "set",
                  !.qr.canvasElement = c]

\* foreverScan in the closure of start() call g.  dec is what qrcode.decode()
\* does with the sampled frame, act what the invoked callback of the page does.
\* res: "return" (_shouldScan is false), "idle" (no stream), "typeError"
\* (_qrRegion or _context is null or undefined), "sampled", "threw" (sampled, and
\* the error callback threw).  Every res but "return", "typeError" and "threw"
\* re-arms the timer.
foreverScan(w, g, dec, act) ==
    LET none == [w |-> w, res |-> "return", success |-> 0, error |-> 0, clear |-> ""]
    IN  IF ~w.qr.shouldScan THEN none
        ELSE IF w.qr.localMediaStream = 0
        THEN [none EXCEPT !.w = setTimeoutForeverScan(w, g), !.res = "idle"]
        ELSE IF w.qr.qrRegion # "set" \/ w.qr.context # "set"
        THEN [none EXCEPT !.res = "typeError"]
        ELSE LET \* drawImage, then qrcode.decode(): the decoder calls qrcode.callback
                 sc == IF dec = "ok" /\ w.cb # 0 THEN userAct(w, act)
                       ELSE [w |-> w, res |-> "ok"]
                 \* catch: qrCodeErrorCallback of this closure
                 ec == IF dec = "throw" THEN userAct(w, act) ELSE sc
                 \* the result of a clear() call of the invoked callback
                 cl == IF act = "clear" /\ (dec = "throw" \/ w.cb # 0) THEN ec.res ELSE ""
             IN  IF dec = "throw" /\ ec.res = "throw"
                 THEN [w |-> ec.w, res |-> "threw", success |-> 0, error |-> g, clear |-> cl]
                 ELSE [w |-> setTimeoutForeverScan(ec.w, g), res |-> "sampled",
                       success |-> IF dec = "ok" THEN w.cb ELSE 0,
                       error |-> IF dec = "throw" \/ sc.res = "throw" THEN g ELSE 0,
                       clear |-> cl]

\* ------------------------------------------------------------ the last task
\* refused: the call threw an 'ongoing scan' error of _clearElement or scanFile;
\* clear: the result of a clear() call made in the task, "" for none; ongoing:
\* that call was made from a callback of a sampling loop, or while a stream was
\* held and the loop of its start() call was armed
NoEv == [kind |-> "init", id |-> 0, res |-> "", scan |-> "", success |-> 0,
         error |-> 0, regionSet |-> FALSE, videoPlaying |-> FALSE, held |-> FALSE,
         afterStop |-> FALSE, refused |-> FALSE, clear |-> "", ongoing |-> FALSE]

Ev(kind, id, res) == [NoEv EXCEPT !.kind = kind, !.id = id, !.res = res]

\* the record of a foreverScan run fs of closure g from world w, where played are
\* the calls whose video has fired 'playing'; afterStop: stop() had been called
\* on the scan of this closure, or of the invoked success callback, before the run
ScanEv(e, g, w, fs, played) ==
    [e EXCEPT !.scan = fs.res,
              !.afterStop = g \in w.stopped \/ fs.success \in w.stopped, !.success = fs.success, !.error = fs.error,
              !.regionSet = w.qr.qrRegion = "set" /\ w.qr.context = "set",
              !.videoPlaying = w.qr.videoElement \in played,
              !.held = w.qr.localMediaStream # 0,
              !.clear = fs.clear, !.ongoing = fs.clear # ""]

\* a scanFile() call: its image, the decoder calls made for it, the calls of
\* resolve or reject of its promise, and what the promise settled with
NoFile == [state |-> "unused", image |-> "", decodes |-> 0, settles |-> 0, result |-> ""]

ScanInit ==
    /\ qr = NewInstance
    /\ qrcodeCallback = 0
    /\ children = {}
    /\ call = [g \in Gens |-> "unused"]
    /\ promise = [g \in Gens |-> "none"]
    /\ rejection = [g \in Gens |-> ""]
    /\ tracks = [g \in Gens |-> 0]
    /\ timers = [i \in Timers |-> 0]
    /\ replays = 0
    /\ files = [f \in Files |-> NoFile]
    /\ stopped = {}
    /\ stopRequested = FALSE
    /\ userMedia \in BOOLEAN
    /\ ev = NoEv

\* ------------------------------------------------------------------ start()
NextGen == CHOOSE g \in Gens : call[g] = "unused" /\ \A h \in Gens : h < g => call[h] # "unused"

\* start(cameraId, configuration, qrCodeSuccessCallback, qrCodeErrorCallback).
\* args: "bad" (no cameraId, or no success callback), "qrbox" (config.qrbox
\* below the minimum or above the element width), "ok".
Start(args) ==
    /\ \E g \in Gens : call[g] = "unused"
    /\ UNCHANGED <<tracks, timers, replays, files, stopped, userMedia, geo, fit, cam, conf>>
    /\ LET g == NextGen
           cl == clearElement(World)
       IN  IF args = "bad" \/ cl.res = "throw"
           THEN /\ ev' = [Ev("start", 0, "throw") EXCEPT !.refused = args # "bad"]
                /\ UNCHANGED <<qr, qrcodeCallback, children, call, promise, rejection, stopRequested>>
           ELSE /\ qr' = [qr EXCEPT !.shouldScan = TRUE]
                /\ qrcodeCallback' = g
                /\ children' = cl.w.children
                /\ stopRequested' = (stopRequested /\ args # "ok")
                /\ call' = [call EXCEPT ![g] =
                              IF args = "qrbox" THEN "invalid"
                              ELSE IF userMedia THEN "requested" ELSE "unsupported"]
                /\ promise' = [promise EXCEPT ![g] =
                              IF args = "qrbox" THEN "none"
                              ELSE IF userMedia THEN "pending" ELSE "rejected"]
                /\ rejection' = [rejection EXCEPT ![g] =
                              IF args = "qrbox" \/ userMedia THEN ""
                              ELSE "Web camera streaming not supported by the browser."]
                /\ ev' = Ev("start", g, IF args = "qrbox" THEN "throw" ELSE "ok")

\* getUserMedia resolves with a stream of n video tracks: onMediaStreamReceived
\* and its setupVideo
StreamReceived(g, n) ==
    /\ call[g] = "requested"
    /\ qr' = [qr EXCEPT !.localMediaStream = g, !.videoElement = g]
    /\ children' = children \cup {<<"video", g>>}
    /\ tracks' = [tracks EXCEPT ![g] = n]
    /\ call' = [call EXCEPT ![g] = "waiting"]
    /\ ev' = Ev("stream", g, "ok")
    /\ UNCHANGED <<qrcodeCallback, promise, rejection, timers, replays, files, stopped,
                   stopRequested, userMedia, geo, fit, cam, conf>>

\* the failure of getUserMedia taken for a stream that plays
UserMediaErrorResolves(g) ==
    /\ call[g] = "requested"
    /\ call' = [call EXCEPT ![g] = "failed"]
    /\ promise' = [promise EXCEPT ![g] = "resolved"]
    /\ qr' = [qr EXCEPT !.isScanning = TRUE]
    /\ ev' = Ev("gumError", g, "resolved")
    /\ UNCHANGED <<qrcodeCallback, children, rejection, tracks, timers, replays, files,
                   stopped, stopRequested, userMedia, geo, fit, cam, conf>>

\* getUserMedia fails: reject(`Error getting userMedia, error = ${err}`)
UserMediaError(g) ==
    /\ call[g] = "requested"
    /\ call' = [call EXCEPT ![g] = "failed"]
    /\ promise' = [promise EXCEPT ![g] = "rejected"]
    /\ rejection' = [rejection EXCEPT ![g] = "Error getting userMedia, error = "]
    /\ ev' = Ev("gumError", g, "rejected")
    /\ UNCHANGED <<qr, qrcodeCallback, children, tracks, timers, replays, files,
                   stopped, stopRequested, userMedia, geo, fit, cam, conf>>

\* the video of call g fires 'playing': videoElement.onplaying, then the
\* reaction of start() to the promise of onMediaStreamReceived.  A video plays
\* while it is in the document and its stream has a live track.
Playing(g, shade, dec, act) ==
    /\ call[g] \in {"waiting", "playing"}
    /\ call[g] = "playing" => replays < MaxReplays
    /\ <<"video", g>> \in children
    /\ tracks[g] > 0
    /\ LET w1 == setupUi(World, shade)
           played == {h \in Gens : call[h] = "playing"} \cup {g}
           fs == foreverScan(w1, g, dec, act)
           resolves == promise[g] = "pending" /\ fs.res # "threw"
       IN  /\ Install(IF resolves THEN [fs.w EXCEPT !.qr.isScanning = TRUE] ELSE fs.w)
           /\ promise' = [promise EXCEPT ![g] = IF resolves THEN "resolved" ELSE @]
           /\ ev' = ScanEv(Ev("playing", g, IF resolves THEN "resolved" ELSE ""),
                           g, w1, fs, played)
    /\ call' = [call EXCEPT ![g] = "playing"]
    /\ replays' = IF call[g] = "playing" THEN replays + 1 ELSE replays
    /\ UNCHANGED <<rejection, files, userMedia, geo, fit, cam, conf>>

\* the video of call g fires 'playing' and setupUi throws (_getShadedRegionBounds
\* finds the qrbox wider than the rendered video): nothing is appended,
\* foreverScan and resolve are not reached
PlayingSetupUiThrows(g) ==
    /\ call[g] = "waiting"
    /\ <<"video", g>> \in children
    /\ tracks[g] > 0
    /\ ev' = Ev("playing", g, "throw")
    /\ UNCHANGED <<qr, qrcodeCallback, children, call, promise, rejection, tracks, timers,
                   replays, files, stopped, stopRequested, userMedia, geo, fit, cam, conf>>

\* the video of call g fires 'error' or 'abort' before it plays
VideoError(g) ==
    /\ call[g] = "waiting"
    /\ call' = [call EXCEPT ![g] = "videoError"]
    /\ promise' = [promise EXCEPT ![g] = "rejected"]
    /\ rejection' = [rejection EXCEPT ![g] = "event"]
    /\ ev' = Ev("videoError", g, "rejected")
    /\ UNCHANGED <<qr, qrcodeCallback, children, tracks, timers, replays, files,
                   stopped, stopRequested, userMedia, geo, fit, cam, conf>>

\* a pending foreverScan timer fires
TimerFires(i, dec, act) ==
    /\ timers[i] # 0
    /\ LET g == timers[i]
           w1 == [World EXCEPT !.timers[i] = 0,
                               !.qr.foreverScanTimeout = IF @ = i THEN StaleTimer ELSE @]
           fs == foreverScan(w1, g, dec, act)
       IN  /\ Install(fs.w)
           /\ ev' = ScanEv(Ev("timer", g, ""), g, w1, fs,
                           {h \in Gens : call[h] = "playing"})
    /\ UNCHANGED <<call, promise, rejection, replays, files, userMedia, geo, fit, cam, conf>>

\* stop() called by the page outside a callback
Stop ==
    /\ LET r == stop(World)
       IN  /\ Install(r.w)
           /\ ev' = [Ev("stop", 0, r.res) EXCEPT !.held = qr.localMediaStream # 0]
    /\ UNCHANGED <<call, promise, rejection, replays, files, userMedia, geo, fit, cam, conf>>

\* clear() called by the page outside a callback
Clear ==
    /\ LET r == clearElement(World)
       IN  /\ Install(r.w)
           /\ ev' = [Ev("clear", 0, r.res) EXCEPT
                       !.refused = r.res = "throw", !.clear = r.res,
                       !.held = qr.localMediaStream # 0,
                       !.ongoing = /\ qr.localMediaStream # 0
                                   /\ \E i \in Timers : timers[i] = qr.localMediaStream]
    /\ UNCHANGED <<call, promise, rejection, replays, files, userMedia, geo, fit, cam, conf>>

\* ---------------------------------------------------------------- scanFile()
NextFile == CHOOSE f \in Files : files[f].state = "unused"
                                 /\ \A h \in Files : h < f => files[h].state # "unused"

\* scanFile(imageFile, showImage); isFile: imageFile is an instance of File
ScanFile(isFile) ==
    /\ \E f \in Files : files[f].state = "unused"
    /\ UNCHANGED <<qr, qrcodeCallback, call, promise, rejection, tracks, timers, replays,
                   stopped, stopRequested, userMedia, geo, fit, cam, conf>>
    /\ LET f == NextFile
       IN  IF ~isFile \/ qr.isScanning
           THEN /\ ev' = [Ev("scanFile", 0, "throw") EXCEPT !.held = qr.localMediaStream # 0,
                                                            !.refused = isFile]
                /\ UNCHANGED <<children, files>>
           ELSE /\ children' = clearElement(World).w.children
                /\ files' = [files EXCEPT ![f] = [NoFile EXCEPT !.state = "loading"]]
                /\ ev' = [Ev("scanFile", f, "ok") EXCEPT !.held = qr.localMediaStream # 0]

\* inputImage.onload: draw the visible canvas (when the call's showImage is not
\* false) and the hidden canvas, decode once.
\* The decoder also calls qrcode.callback when one is set; nothing of scanFile
\* runs after it, so what that callback does is a later step of the page.
ImageLoads(f, showImage, dec) ==
    /\ files[f].state = "loading"
    /\ children' = children \cup {<<"hidden", f>>}
                     \cup (IF showImage THEN {<<"visible", f>>} ELSE {})
    /\ files' = [files EXCEPT ![f].image = "loaded",
                              ![f].decodes = @ + 1,
                              ![f].settles = @ + 1,
                              ![f].state = IF dec = "ok" THEN "resolved" ELSE "rejected",
                              ![f].result = IF dec = "ok" THEN "text" ELSE "parse error"]
    /\ ev' = [Ev("imageLoad", f, dec) EXCEPT !.held = qr.localMediaStream # 0,
                 !.success = IF dec = "ok" THEN qrcodeCallback ELSE 0]
    /\ UNCHANGED <<qr, qrcodeCallback, call, promise, rejection, tracks, timers, replays,
                   stopped, stopRequested, userMedia, geo, fit, cam, conf>>

\* inputImage.onerror wired to resolve instead of reject
ImageErrorResolves(f) ==
    /\ files[f].state = "loading"
    /\ files' = [files EXCEPT ![f].image = "failed", ![f].settles = @ + 1,
                              ![f].state = "resolved", ![f].result = "event"]
    /\ ev' = Ev("imageError", f, "resolved")
    /\ UNCHANGED <<qr, qrcodeCallback, children, call, promise, rejection, tracks, timers,
                   replays, stopped, stopRequested, userMedia, geo, fit, cam, conf>>

\* inputImage.onerror, onabort: reject with the event
ImageError(f) ==
    /\ files[f].state = "loading"
    /\ files' = [files EXCEPT ![f].image = "failed", ![f].settles = @ + 1,
                              ![f].state = "rejected", ![f].result = "event"]
    /\ ev' = Ev("imageError", f, "rejected")
    /\ UNCHANGED <<qr, qrcodeCallback, children, call, promise, rejection, tracks, timers,
                   replays, stopped, stopRequested, userMedia, geo, fit, cam, conf>>

\* ------------------------------------------------------ the scan life cycle
Off == [stage |-> "off"]

Init == ScanInit /\ geo = Off /\ fit = Off /\ cam = Off /\ conf = Off

DecodeOutcomes == {"ok", "throw"}

Next ==
    \/ \E args \in {"ok", "bad", "qrbox"} : Start(args)
    \/ \E g \in Gens, n \in TrackCounts : StreamReceived(g, n)
    \/ \E g \in Gens : UserMediaError(g)
    \/ \E g \in Gens, shade \in BOOLEAN, dec \in DecodeOutcomes, act \in CallbackActs :
          Playing(g, shade, dec, act)
    \/ \E g \in Gens : PlayingSetupUiThrows(g)
    \/ \E g \in Gens : VideoError(g)
    \/ \E i \in Timers, dec \in DecodeOutcomes, act \in CallbackActs : TimerFires(i, dec, act)
    \/ Stop
    \/ Clear
    \/ \E isFile \in BOOLEAN : ScanFile(isFile)
    \/ \E f \in Files, showImage \in BOOLEAN, dec \in DecodeOutcomes :
          ImageLoads(f, showImage, dec)
    \/ \E f \in Files : ImageError(f)

Spec == Init /\ [][Next]_vars

\* The browser delivers what is pending: a camera request settles, a video in
\* the document with a live stream plays or fails, a pending timer fires, an
\* image loads or fails.  What the page calls, and when, is not constrained.
FairSpec ==
    /\ Spec
    /\ WF_vars(\E g \in Gens : (\E n \in TrackCounts : StreamReceived(g, n)) \/ UserMediaError(g))
    /\ WF_vars(\E g \in Gens : call[g] = "waiting" /\
                 (VideoError(g) \/ \E shade \in BOOLEAN, dec \in DecodeOutcomes :
                                      Playing(g, shade, dec, "none")))
    /\ WF_vars(\E i \in Timers, dec \in DecodeOutcomes : TimerFires(i, dec, "none"))
    /\ WF_vars(\E f \in Files : ImageError(f)
                 \/ \E showImage \in BOOLEAN, dec \in DecodeOutcomes : ImageLoads(f, showImage, dec))

\* ------------------------------------------------------------------ claims
FileInProgress == \E f \in Files : files[f].state = "loading"
Sampled == ev.scan \in {"sampled", "threw"}

\* C1: camera scanning and the still-image path are mutually exclusive: no
\* camera stream is held, and no scan loop samples, while an accepted scanFile()
\* call is loading, drawing or decoding its image, and scanFile() called while a
\* camera stream is held throws instead of being accepted.
C1_MutuallyExclusive ==
    /\ ~(qr.localMediaStream # 0 /\ FileInProgress)
    /\ ~(Sampled /\ FileInProgress)
    /\ ev.kind = "imageLoad" => ~ev.held
    /\ (ev.kind = "scanFile" /\ ev.held) => ev.res = "throw"

Released == qr.localMediaStream = 0 /\ \A g \in Gens : tracks[g] = 0
RequestPending == \E g \in Gens : call[g] = "requested"

\* C2: after stop() is called following a start(), also while that start() still
\* waits for its stream or its video, eventually every track of every acquired
\* stream is stopped and no stream is held, unless start() is called again.
C2_StopStopsStreaming ==
    [](stopRequested => <>(~stopRequested \/ (~RequestPending /\ Released)))

\* C3: once stop() has been called on a scan, its loop samples no frame and calls
\* no decoder, and its success and error callbacks are not invoked again, also
\* after a later start().
C3_StopStopsScanning == (Sampled \/ ev.success # 0) => ~ev.afterStop

\* C8: an accepted scanFile() call decodes once if the image loads and never if
\* it fails, and its promise settles once: resolved with the decoder's result if
\* the image loaded and the decoder did not throw, rejected with the parse error
\* if it threw, rejected with the event if the image failed.
C8_DecodedAndSettledOnce ==
    \A f \in Files :
        LET c == files[f]
        IN  /\ c.image = "loaded" => c.decodes = 1 /\ c.settles = 1
            /\ c.image = "failed" => c.decodes = 0 /\ c.settles = 1
                                     /\ c.state = "rejected" /\ c.result = "event"
            /\ c.image = "" => c.decodes = 0 /\ c.settles = 0
                               /\ c.state \in {"unused", "loading"}
            /\ c.state = "resolved" <=> (c.image = "loaded" /\ c.result = "text")
            /\ (c.image = "loaded" /\ c.result # "text") =>
                   c.state = "rejected" /\ c.result = "parse error"

C8_Witness ==
    \E f \in Files : files[f].state = "resolved" /\ files[f].decodes = 1

\* C9: a scan loop samples only after the video of the current start() has fired
\* 'playing' and setupUi has set _qrRegion and _context for it; it never reaches
\* the sampling code while a stream is held and they are null or undefined.
C9_PlayingThenGeometryThenSampling ==
    (Sampled \/ ev.scan = "typeError") => (ev.regionSet /\ ev.videoPlaying)

\* ------------------------------------------------- claims: failing starts
Unusable == {"failed", "unsupported"}
Videos(ch) == {e \in ch : e[1] = "video"}
NoCameraSoFar == \A g \in Gens : call[g] \in {"unused", "invalid"} \cup Unusable

\* what holds of a start() call whose camera could not be used
StartFailed ==
    /\ \A g \in Gens :
          /\ call[g] = "failed" =>
                rejection[g] = "Error getting userMedia, error = "
          /\ call[g] = "unsupported" =>
                rejection[g] = "Web camera streaming not supported by the browser."
          /\ (~userMedia /\ call[g] \notin {"unused", "invalid"}) => call[g] = "unsupported"
          /\ call[g] \in Unusable =>
                /\ promise[g] = "rejected"
                /\ tracks[g] = 0 /\ qr.localMediaStream # g /\ qr.videoElement # g
                /\ <<"video", g>> \notin children
                /\ \A i \in Timers : timers[i] # g
    /\ NoCameraSoFar =>
          /\ ~qr.isScanning /\ qr.localMediaStream = 0
          /\ Videos(children) = {} /\ \A i \in Timers : timers[i] = 0
          /\ ~ev.refused

\* the step in which a start() call fails
StartFails ==
    \A g \in Gens :
        (call'[g] \in Unusable /\ call[g] # call'[g]) =>
            /\ qr'.isScanning = qr.isScanning
            /\ qr'.localMediaStream = qr.localMediaStream
            /\ Videos(children') \subseteq Videos(children)
            /\ timers' = timers

\* C11: when getUserMedia fails, or no camera API exists, the promise of start()
\* is rejected with the message of that failure and never resolved; the failing
\* step sets no _isScanning, holds no stream, adds no video and starts no scan
\* loop, and while no camera was usable a later start(), scanFile() or clear()
\* is not refused.
C11_StartFailsCleanly == []StartFailed /\ [][StartFails]_vars

C11_Witness ==
    /\ call[1] = "failed" /\ promise[1] = "rejected"
    /\ ev.kind = "start" /\ ev.id = 2 /\ ev.res = "ok"

\* C13: clear() called while a camera scan is ongoing, also from inside the
\* success or error callback of a sampling loop, throws 'Cannot clear while scan
\* is ongoing, close it first.'; called while no stream is held it empties the
\* container.
C13_ClearRefusedDuringScan ==
    /\ (ev.clear # "" /\ ev.ongoing) => ev.clear = "throw"
    /\ (ev.kind = "clear" /\ ~ev.held) => ev.clear = "ok"

\* C15: the promise of a stop() call made while a camera stream is held is
\* resolved with true, and that of a call made while no stream is held is
\* rejected; stop() does not throw.
C15_StopSettles ==
    ev.kind = "stop" => ev.res = (IF ev.held THEN "resolved" ELSE "rejected")

PendingTimers == {i \in Timers : timers[i] # 0}

\* C16: at most one foreverScan timer is pending, it is the one recorded in
\* _foreverScanTimeout, and none is pending after stop() until the next start().
C16_SingleTimer ==
    /\ Cardinality(PendingTimers) <= 1
    /\ \A i \in PendingTimers : qr.foreverScanTimeout = i
    /\ stopRequested => PendingTimers = {}

Inserted(ch) == {e \in ch : e[1] \in {"video", "canvas", "shade"}}

\* C18: after a stop() whose promise resolves, the container holds no video, no
\* canvas and no shading element of the scanner, and _qrRegion and _context are
\* null.
C18_StopRemovesInserted ==
    (ev.kind = "stop" /\ ev.res = "resolved") =>
        /\ Inserted(children) = {}
        /\ qr.qrRegion = "null" /\ qr.context = "null"

\* C19: _isScanning is true only while a camera stream is held, so that after a
\* stop() that resolved nothing is refused with an 'ongoing scan' error.
C19_IdleAfterStop ==
    /\ qr.isScanning => qr.localMediaStream # 0
    /\ (ev.refused /\ ev.kind \in {"start", "scanFile", "clear"}) => qr.localMediaStream # 0

LiveStreams == {g \in Gens : tracks[g] > 0}

\* C20: at most one acquired camera stream has live video tracks, it is the one
\* in _localMediaStream, and the container holds at most one video element.
C20_OneLiveStream ==
    /\ Cardinality(LiveStreams) <= 1
    /\ \A g \in LiveStreams : qr.localMediaStream = g
    /\ Cardinality(Videos(children)) <= 1

\* ------------------------------------------------------ viewfinder geometry
\* _getShadedRegionBounds with the guard on the width alone
getShadedRegionBoundsWidthGuard(width, height, qrboxSize) ==
    IF qrboxSize > width
    THEN [threw |-> TRUE]
    ELSE [threw |-> FALSE,
          x |-> Div(Num(width - qrboxSize), Num(2)),
          y |-> Div(Num(height - qrboxSize), Num(2)),
          width |-> Num(qrboxSize),
          height |-> Num(qrboxSize)]

\* _getShadedRegionBounds(width, height, qrboxSize)
getShadedRegionBounds(width, height, qrboxSize) ==
    IF qrboxSize > width \/ qrboxSize > height
    THEN [threw |-> TRUE]
    ELSE [threw |-> FALSE,
          x |-> Div(Num(width - qrboxSize), Num(2)),
          y |-> Div(Num(height - qrboxSize), Num(2)),
          width |-> Num(qrboxSize),
          height |-> Num(qrboxSize)]

\* the positions of a shading element
SHADED_LEFT   == 1
SHADED_RIGHT  == 2
SHADED_TOP    == 3
SHADED_BOTTOM == 4

\* _createShadedElement with the bottom element as high as the video
createShadedElementTallBottom(height, qrRegion, shadingPosition) ==
    CASE shadingPosition = SHADED_LEFT ->
           [top |-> Num(0), side |-> "left", offset |-> Num(0),
            width |-> qrRegion.x, height |-> Num(height)]
      [] shadingPosition = SHADED_RIGHT ->
           [top |-> Num(0), side |-> "right", offset |-> Num(0),
            width |-> qrRegion.x, height |-> Num(height)]
      [] shadingPosition = SHADED_TOP ->
           [top |-> Num(0), side |-> "left", offset |-> qrRegion.x,
            width |-> qrRegion.width, height |-> qrRegion.y]
      [] shadingPosition = SHADED_BOTTOM ->
           [top |-> Add(qrRegion.y, qrRegion.height), side |-> "left",
            offset |-> qrRegion.x, width |-> qrRegion.width, height |-> Num(height)]

\* _createShadedElement(height, qrRegion, shadingPosition): the style of the
\* element; side and offset are its style.left or style.right
createShadedElement(height, qrRegion, shadingPosition) ==
    CASE shadingPosition = SHADED_LEFT ->
           [top |-> Num(0), side |-> "left", offset |-> Num(0),
            width |-> qrRegion.x, height |-> Num(height)]
      [] shadingPosition = SHADED_RIGHT ->
           [top |-> Num(0), side |-> "right", offset |-> Num(0),
            width |-> qrRegion.x, height |-> Num(height)]
      [] shadingPosition = SHADED_TOP ->
           [top |-> Num(0), side |-> "left", offset |-> qrRegion.x,
            width |-> qrRegion.width, height |-> qrRegion.y]
      [] shadingPosition = SHADED_BOTTOM ->
           [top |-> Add(qrRegion.y, qrRegion.height), side |-> "left",
            offset |-> qrRegion.x, width |-> qrRegion.width, height |-> qrRegion.y]

\* _possiblyInsertShadingElement(element, height, qrRegion): the elements appended
possiblyInsertShadingElement(height, qrRegion) ==
    IF qrRegion.x = Num(0) /\ qrRegion.y = Num(0)
    THEN <<>>
    ELSE <<createShadedElement(height, qrRegion, SHADED_LEFT),
           createShadedElement(height, qrRegion, SHADED_RIGHT),
           createShadedElement(height, qrRegion, SHADED_TOP),
           createShadedElement(height, qrRegion, SHADED_BOTTOM)>>

\* setupUi(width, height) of start() with config.qrbox = qrbox (0: undefined):
\* the viewfinder region, the canvas size and the shading elements
setupUiRegion(width, height, qrbox) ==
    LET shouldShadingBeApplied == qrbox # 0 /\ qrbox <= height
        qrRegion == IF shouldShadingBeApplied
                    THEN getShadedRegionBounds(width, height, qrbox)
                    ELSE [threw |-> FALSE, x |-> Num(0), y |-> Num(0),
                          width |-> Num(width), height |-> Num(height)]
    IN  IF qrRegion.threw THEN [threw |-> TRUE]
        ELSE [threw |-> FALSE, qrRegion |-> qrRegion,
              canvas |-> [width |-> qrRegion.width, height |-> qrRegion.height],
              shades |-> IF shouldShadingBeApplied
                         THEN possiblyInsertShadingElement(height, qrRegion)
                         ELSE <<>>]

\* the drawImage call of foreverScan for a video of native size videoWidth x
\* videoHeight rendered at clientWidth x clientHeight
drawImageArgs(qrRegion, videoWidth, videoHeight, clientWidth, clientHeight) ==
    LET widthRatio == Div(Num(videoWidth), Num(clientWidth))
        heightRatio == Div(Num(videoHeight), Num(clientHeight))
        sWidthOffset == Mul(qrRegion.width, widthRatio)
        sHeightOffset == Mul(qrRegion.height, heightRatio)
    IN  [sx |-> qrRegion.x, sy |-> qrRegion.y,
         sWidth |-> sWidthOffset, sHeight |-> sHeightOffset,
         dx |-> Num(0), dy |-> Num(0),
         dWidth |-> qrRegion.width, dHeight |-> qrRegion.height]

\* where an absolutely positioned element lies in a container of the given
\* width (the container has position: relative)
Box(style, containerWidth) ==
    LET x0 == IF style.side = "left" THEN style.offset
              ELSE Sub(Sub(Num(containerWidth), style.offset), style.width)
    IN  [x0 |-> x0, x1 |-> Add(x0, style.width),
         y0 |-> style.top, y1 |-> Add(style.top, style.height)]

Sides   == 1..MaxSide
QrBoxes == 0..(MaxSide + 1)    \* config.qrbox; 0: undefined

GeoInit ==
    geo \in [stage : {"in"}, clientWidth : Sides, clientHeight : Sides, qrbox : QrBoxes,
             videoWidth : Sides, videoHeight : Sides, out : {[threw |-> FALSE]}]

\* a call of _getShadedRegionBounds with a qrbox
GetShadedRegionBounds ==
    /\ geo.stage = "in" /\ geo.qrbox # 0
    /\ geo' = [geo EXCEPT !.stage = "bounds",
                 !.out = getShadedRegionBounds(geo.clientWidth, geo.clientHeight, geo.qrbox)]
    /\ UNCHANGED <<scanVars, fit, cam, conf>>

\* onplaying: setupUi(videoElement.clientWidth, videoElement.clientHeight)
SetupUi ==
    /\ geo.stage = "in"
    /\ geo' = [geo EXCEPT !.stage = "ui",
                 !.out = setupUiRegion(geo.clientWidth, geo.clientHeight, geo.qrbox)]
    /\ UNCHANGED <<scanVars, fit, cam, conf>>

\* a frame sample of foreverScan
Sample ==
    /\ geo.stage = "ui" /\ ~geo.out.threw
    /\ geo' = [geo EXCEPT !.stage = "sampled",
                 !.out = [@ EXCEPT !.threw = FALSE] @@
                         [draw |-> drawImageArgs(geo.out.qrRegion, geo.videoWidth,
                                     geo.videoHeight, geo.clientWidth, geo.clientHeight)]]
    /\ UNCHANGED <<scanVars, fit, cam, conf>>

GeoNext == GetShadedRegionBounds \/ SetupUi \/ Sample

GeoSpecInit == ScanInit /\ userMedia = TRUE /\ GeoInit /\ fit = Off /\ cam = Off /\ conf = Off

GeoSpec == GeoSpecInit /\ [][GeoNext]_vars

WidthRatio  == Div(Num(geo.videoWidth), Num(geo.clientWidth))
HeightRatio == Div(Num(geo.videoHeight), Num(geo.clientHeight))

\* C4: a frame sample copies the viewfinder region (x, y, width, height) scaled
\* by the native/rendered ratios: the source rectangle of drawImage is
\* (x*widthRatio, y*heightRatio, width*widthRatio, height*heightRatio) and the
\* destination is (0, 0, width, height).
C4_SampleCopiesViewfinder ==
    geo.stage = "sampled" =>
        LET r == geo.out.qrRegion
            d == geo.out.draw
        IN  /\ d.sx = Mul(r.x, WidthRatio)
            /\ d.sy = Mul(r.y, HeightRatio)
            /\ d.sWidth = Mul(r.width, WidthRatio)
            /\ d.sHeight = Mul(r.height, HeightRatio)
            /\ d.dx = Num(0) /\ d.dy = Num(0)
            /\ d.dWidth = r.width /\ d.dHeight = r.height

\* C5: for a qrbox q within the video width W and height H,
\* _getShadedRegionBounds returns the square of side q centered in the video
\* (2x = W - q, 2y = H - q, inside the video); for a larger q it throws.
C5_CenteredSquare ==
    geo.stage = "bounds" =>
        LET W == geo.clientWidth
            H == geo.clientHeight
            q == geo.qrbox
            b == geo.out
        IN  IF q <= W /\ q <= H
            THEN /\ ~b.threw
                 /\ b.width = Num(q) /\ b.height = Num(q)
                 /\ Mul(Num(2), b.x) = Num(W - q)
                 /\ Mul(Num(2), b.y) = Num(H - q)
                 /\ Leq(Num(0), b.x) /\ Leq(Num(0), b.y)
                 /\ Leq(Add(b.x, Num(q)), Num(W))
                 /\ Leq(Add(b.y, Num(q)), Num(H))
            ELSE b.threw

C5_Witness ==
    /\ geo.stage = "bounds" /\ ~geo.out.threw
    /\ geo.out.x = Rat(1, 2) /\ geo.out.y = Num(1)

\* the point (p[1]/2, p[2]/2) lies in the half-open box b
InBox(p, b) ==
    /\ Leq(b.x0, Rat(p[1], 2)) /\ Less(Rat(p[1], 2), b.x1)
    /\ Leq(b.y0, Rat(p[2], 2)) /\ Less(Rat(p[2], 2), b.y1)

ShadingApplied == geo.stage = "ui" /\ ~geo.out.threw /\ geo.out.shades # <<>>

\* C6: the four shading rectangles (left [0,x) x [0,H), right [W-x,W) x [0,H),
\* top [x,x+q) x [0,y), bottom [x,x+q) x [y+q,y+q+y)) and the viewfinder region
\* partition the W x H video: every point of it lies in exactly one of the five,
\* and no rectangle leaves the video.
C6_ShadingPartitionsVideo ==
    ShadingApplied =>
        LET W == Num(geo.clientWidth)
            H == Num(geo.clientHeight)
            r == geo.out.qrRegion
            q == r.width
            box == [k \in 1..4 |-> Box(geo.out.shades[k], geo.clientWidth)]
            region == [x0 |-> r.x, x1 |-> Add(r.x, r.width),
                       y0 |-> r.y, y1 |-> Add(r.y, r.height)]
            all == <<box[1], box[2], box[3], box[4], region>>
        IN  /\ box[1] = [x0 |-> Num(0), x1 |-> r.x, y0 |-> Num(0), y1 |-> H]
            /\ box[2] = [x0 |-> Sub(W, r.x), x1 |-> W, y0 |-> Num(0), y1 |-> H]
            /\ box[3] = [x0 |-> r.x, x1 |-> Add(r.x, q), y0 |-> Num(0), y1 |-> r.y]
            /\ box[4] = [x0 |-> r.x, x1 |-> Add(r.x, q),
                         y0 |-> Add(r.y, q), y1 |-> Add(Add(r.y, q), r.y)]
            /\ \A k \in 1..5 :
                  /\ Leq(Num(0), all[k].x0) /\ Leq(all[k].x1, W)
                  /\ Leq(Num(0), all[k].y0) /\ Leq(all[k].y1, H)
            /\ \A i \in 0..(2 * geo.clientWidth - 1), j \in 0..(2 * geo.clientHeight - 1) :
                  Cardinality({k \in 1..5 : InBox(<<i, j>>, all[k])}) = 1

C6_Witness ==
    /\ ShadingApplied
    /\ Less(Num(0), geo.out.qrRegion.x) /\ Less(Num(0), geo.out.qrRegion.y)
    /\ geo.out.qrRegion.x # geo.out.qrRegion.y

\* --------------------------------------------------------- containment fit
\* computeCanvasDrawConfig refining by halves: an image that does not fit is
\* halved and tried again
RECURSIVE computeCanvasDrawConfigHalving(_, _, _, _)
computeCanvasDrawConfigHalving(imageWidth, imageHeight, containerWidth, containerHeight) ==
    IF Leq(imageWidth, containerWidth) /\ Leq(imageHeight, containerHeight)
    THEN [x |-> Div(Sub(containerWidth, imageWidth), Num(2)),
          y |-> Div(Sub(containerHeight, imageHeight), Num(2)),
          width |-> imageWidth, height |-> imageHeight, calls |-> 1]
    ELSE LET r == computeCanvasDrawConfigHalving(Div(imageWidth, Num(2)),
                      Div(imageHeight, Num(2)), containerWidth, containerHeight)
         IN  [r EXCEPT !.calls = @ + 1]

\* computeCanvasDrawConfig with the width clamped and the height left as it is
RECURSIVE computeCanvasDrawConfigClampWidth(_, _, _, _)
computeCanvasDrawConfigClampWidth(imageWidth, imageHeight, containerWidth, containerHeight) ==
    IF Leq(imageWidth, containerWidth) /\ Leq(imageHeight, containerHeight)
    THEN [x |-> Div(Sub(containerWidth, imageWidth), Num(2)),
          y |-> Div(Sub(containerHeight, imageHeight), Num(2)),
          width |-> imageWidth, height |-> imageHeight, calls |-> 1]
    ELSE LET wide == Less(containerWidth, imageWidth)
             w1 == IF wide THEN containerWidth ELSE imageWidth
             h1 == imageHeight
             high == Less(containerHeight, h1)
             w2 == IF high THEN Mul(Div(containerHeight, h1), w1) ELSE w1
             h2 == IF high THEN containerHeight ELSE h1
             r == computeCanvasDrawConfigClampWidth(w2, h2, containerWidth, containerHeight)
         IN  [r EXCEPT !.calls = @ + 1]

\* computeCanvasDrawConfig(imageWidth, imageHeight, containerWidth, containerHeight)
\* of scanFile(); calls counts the calls of the function, the first included
RECURSIVE computeCanvasDrawConfig(_, _, _, _)
computeCanvasDrawConfig(imageWidth, imageHeight, containerWidth, containerHeight) ==
    IF Leq(imageWidth, containerWidth) /\ Leq(imageHeight, containerHeight)
    THEN [x |-> Div(Sub(containerWidth, imageWidth), Num(2)),
          y |-> Div(Sub(containerHeight, imageHeight), Num(2)),
          width |-> imageWidth, height |-> imageHeight, calls |-> 1]
    ELSE LET wide == Less(containerWidth, imageWidth)
             w1 == IF wide THEN containerWidth ELSE imageWidth
             h1 == IF wide THEN Mul(Div(containerWidth, imageWidth), imageHeight)
                   ELSE imageHeight
             high == Less(containerHeight, h1)
             w2 == IF high THEN Mul(Div(containerHeight, h1), w1) ELSE w1
             h2 == IF high THEN containerHeight ELSE h1
             r == computeCanvasDrawConfig(w2, h2, containerWidth, containerHeight)
         IN  [r EXCEPT !.calls = @ + 1]

Dims == 1..MaxDim

FitInit ==
    fit \in [stage : {"in"}, imageWidth : Dims, imageHeight : Dims,
             containerWidth : Dims, containerHeight : Dims, config : {<<>>}]

\* inputImage.onload of scanFile(): the layout of the loaded image
ComputeConfig ==
    /\ fit.stage = "in"
    /\ fit' = [fit EXCEPT !.stage = "done",
                 !.config = computeCanvasDrawConfig(Num(fit.imageWidth), Num(fit.imageHeight),
                               Num(fit.containerWidth), Num(fit.containerHeight))]
    /\ UNCHANGED <<scanVars, geo, cam, conf>>

FitSpecInit == ScanInit /\ userMedia = TRUE /\ geo = Off /\ FitInit /\ cam = Off /\ conf = Off

FitSpec == FitSpecInit /\ [][ComputeConfig]_vars

\* C7: the result (x, y, w, h) of computeCanvasDrawConfig for an image iw x ih
\* and a container cw x ch fits the container, is never larger than the image
\* and equals it when the image fits, keeps the aspect ratio (w*ih = h*iw), and
\* is centered: x = (cw - w)/2 >= 0, y = (ch - h)/2 >= 0.
C7_ContainmentFit ==
    fit.stage = "done" =>
        LET iw == Num(fit.imageWidth)
            ih == Num(fit.imageHeight)
            cw == Num(fit.containerWidth)
            ch == Num(fit.containerHeight)
            c == fit.config
        IN  /\ Leq(c.width, cw) /\ Leq(c.height, ch)
            /\ Leq(c.width, iw) /\ Leq(c.height, ih)
            /\ (Leq(iw, cw) /\ Leq(ih, ch)) => (c.width = iw /\ c.height = ih)
            /\ Mul(c.width, ih) = Mul(c.height, iw)
            /\ c.x = Div(Sub(cw, c.width), Num(2)) /\ Leq(Num(0), c.x)
            /\ c.y = Div(Sub(ch, c.height), Num(2)) /\ Leq(Num(0), c.y)

\* an image wider than the container whose height still exceeds it after the
\* width is fitted
C7_Witness ==
    /\ fit.stage = "done"
    /\ fit.imageWidth > fit.containerWidth
    /\ fit.config.height = Num(fit.containerHeight)
    /\ Less(fit.config.width, Num(fit.containerWidth))

\* C21: computeCanvasDrawConfig returns after at most one recursive call: an
\* image that fits is laid out by the first call, any other image by the second,
\* because one downscale step brings both sides within the container.
C21_OneRefinement ==
    fit.stage = "done" =>
        LET fits == fit.imageWidth <= fit.containerWidth
                    /\ fit.imageHeight <= fit.containerHeight
        IN  fit.config.calls = (IF fits THEN 1 ELSE 2)

\* an image that is too high only
C21_Witness ==
    /\ fit.stage = "done" /\ fit.config.calls = 2
    /\ fit.imageWidth <= fit.containerWidth
    /\ fit.imageHeight > fit.containerHeight

\* -------------------------------------------------------------- getCameras()
\* the loop of getCameras() over the devices of enumerateDevices, from index i,
\* with every device taken for a camera
RECURSIVE videoInputsAnyKind(_, _)
videoInputsAnyKind(devices, i) ==
    IF i > Len(devices) THEN <<>>
    ELSE <<[id |-> devices[i].deviceId, label |-> devices[i].label]>>
         \o videoInputsAnyKind(devices, i + 1)

\* the loop of getCameras() over the devices of enumerateDevices, from index i
RECURSIVE videoInputs(_, _)
videoInputs(devices, i) ==
    IF i > Len(devices) THEN <<>>
    ELSE (IF devices[i].kind = "videoinput"
          THEN <<[id |-> devices[i].deviceId, label |-> devices[i].label]>>
          ELSE <<>>) \o videoInputs(devices, i + 1)

\* the loop of getCameras() over the sources of MediaStreamTrack.getSources
RECURSIVE videoSources(_, _)
videoSources(sourceInfos, i) ==
    IF i > Len(sourceInfos) THEN <<>>
    ELSE (IF sourceInfos[i].kind = "video"
          THEN <<[id |-> sourceInfos[i].id, label |-> sourceInfos[i].label]>>
          ELSE <<>>) \o videoSources(sourceInfos, i + 1)

DeviceKinds == {"videoinput", "audioinput", "audiooutput"}
SourceKinds == {"video", "audio"}

\* the device lists of the browser: device i has deviceId i and label MaxDevices + i
DeviceLists ==
    UNION {[1..n -> DeviceKinds] : n \in 0..MaxDevices}

Devices(kinds) ==
    [i \in 1..Len(kinds) |-> [kind |-> kinds[i], deviceId |-> i, label |-> MaxDevices + i]]

SourceLists ==
    UNION {[1..n -> SourceKinds] : n \in 0..MaxDevices}

Sources(kinds) ==
    [i \in 1..Len(kinds) |-> [kind |-> kinds[i], id |-> i, label |-> MaxDevices + i]]

CamInit ==
    \/ \E kinds \in DeviceLists :
          cam = [stage |-> "idle", api |-> "mediaDevices", devices |-> Devices(kinds),
                 failed |-> "", result |-> <<>>]
    \/ \E kinds \in SourceLists :
          cam = [stage |-> "idle", api |-> "getSources", devices |-> Sources(kinds),
                 failed |-> "", result |-> <<>>]
    \/ cam = [stage |-> "idle", api |-> "none", devices |-> <<>>,
              failed |-> "", result |-> <<>>]

\* getCameras(): ask for the camera permission, or for the sources, or reject
GetCameras ==
    /\ cam.stage = "idle"
    /\ cam' = [cam EXCEPT !.stage = CASE cam.api = "mediaDevices" -> "permission"
                                      [] cam.api = "getSources" -> "sources"
                                      [] OTHER -> "rejected"]
    /\ UNCHANGED <<scanVars, geo, fit, conf>>

\* getUserMedia({audio: false, video: true}) resolves: enumerateDevices()
PermissionGranted ==
    /\ cam.stage = "permission"
    /\ cam' = [cam EXCEPT !.stage = "enumerating"]
    /\ UNCHANGED <<scanVars, geo, fit, conf>>

\* getUserMedia rejects: reject(`${err.name} : ${err.message}`)
PermissionDenied ==
    /\ cam.stage = "permission"
    /\ cam' = [cam EXCEPT !.stage = "rejected", !.failed = "permission"]
    /\ UNCHANGED <<scanVars, geo, fit, conf>>

\* enumerateDevices() resolves with the devices
DevicesEnumerated ==
    /\ cam.stage = "enumerating"
    /\ cam' = [cam EXCEPT !.stage = "resolved", !.result = videoInputs(cam.devices, 1)]
    /\ UNCHANGED <<scanVars, geo, fit, conf>>

\* enumerateDevices() rejects
EnumerationFailed ==
    /\ cam.stage = "enumerating"
    /\ cam' = [cam EXCEPT !.stage = "rejected", !.failed = "enumeration"]
    /\ UNCHANGED <<scanVars, geo, fit, conf>>

\* the callback of MediaStreamTrack.getSources
SourcesReceived ==
    /\ cam.stage = "sources"
    /\ cam' = [cam EXCEPT !.stage = "resolved", !.result = videoSources(cam.devices, 1)]
    /\ UNCHANGED <<scanVars, geo, fit, conf>>

CamNext ==
    \/ GetCameras
    \/ PermissionGranted
    \/ PermissionDenied
    \/ DevicesEnumerated
    \/ EnumerationFailed
    \/ SourcesReceived

CamSpecInit == ScanInit /\ userMedia = TRUE /\ geo = Off /\ fit = Off /\ CamInit /\ conf = Off

CamSpec == CamSpecInit /\ [][CamNext]_vars

\* the positions of the video inputs in a device list, in order
VideoInputIndices(devices) ==
    SelectSeq([i \in 1..Len(devices) |-> i], LAMBDA i : devices[i].kind = "videoinput")

\* C10: getCameras() resolves with one {id, label} entry per enumerated device
\* of kind "videoinput", in enumeration order, id = deviceId and label = label,
\* and none for another kind; when the permission or the enumeration fails the
\* promise is rejected and nothing is resolved.
C10_VideoInputsOnly ==
    cam.api = "mediaDevices" =>
        /\ cam.stage = "resolved" =>
              LET ix == VideoInputIndices(cam.devices)
              IN  /\ cam.failed = ""
                  /\ Len(cam.result) = Len(ix)
                  /\ \A k \in 1..Len(ix) :
                        /\ cam.result[k].id = cam.devices[ix[k]].deviceId
                        /\ cam.result[k].label = cam.devices[ix[k]].label
        /\ cam.failed # "" => cam.stage = "rejected" /\ cam.result = <<>>
        /\ cam.stage # "resolved" => cam.result = <<>>

C10_Witness ==
    /\ cam.api = "mediaDevices" /\ cam.stage = "resolved"
    /\ Len(cam.devices) = MaxDevices
    /\ cam.devices[1].kind = "audioinput"
    /\ cam.devices[2].kind = "videoinput"
    /\ Len(cam.result) = 1

\* ------------------------------------------- start(): arguments and interval
DEFAULT_WIDTH    == 300
SCAN_DEFAULT_FPS == 2
MIN_QR_BOX_SIZE  == 50

MaxSlack == 1   \* sizes are taken this close around the thresholds
MaxFps   == 3   \* config.fps
MaxTicks == 2   \* runs of foreverScan of one scan

\* a value that may be undefined: <<>> is undefined, <<v>> is v
Undefined == <<>>
Given(v)  == <<v>>

Near(n) == (n - MaxSlack)..(n + MaxSlack)
Sizes   == {0} \cup Near(MIN_QR_BOX_SIZE) \cup Near(DEFAULT_WIDTH)

\* the configuration argument: absent, or an object with optional fps and qrbox
Configurations ==
    {[present |-> FALSE, fps |-> Undefined, qrbox |-> Undefined]}
    \cup [present : {TRUE},
          fps : {Undefined} \cup {Given(f) : f \in 0..MaxFps},
          qrbox : {Undefined} \cup {Given(q) : q \in Sizes}]

ConfInit ==
    conf \in [stage : {"in"}, isScanning : BOOLEAN,
              cameraId : {"", "camera"},
              qrCodeSuccessCallback : {"undefined", "string", "function"},
              configuration : Configurations,
              clientWidth : Sizes,
              out : {<<>>}, delays : {<<>>}, decs : {<<>>}]

\* the synchronous part of start() with the qrbox checks against the
\* clientWidth alone
startSyncNoDefaultWidth(isScanning, cameraId, qrCodeSuccessCallback, configuration, clientWidth) ==
    LET thrown(m, cleared) ==
            [threw |-> m, cleared |-> cleared, requested |-> FALSE, inserted |-> 0, fps |-> 0]
    IN  IF cameraId = "" THEN thrown("cameraId is required", FALSE)
        ELSE IF qrCodeSuccessCallback # "function"
        THEN thrown("qrCodeSuccessCallback is required and should be a function.", FALSE)
        ELSE IF isScanning
        THEN thrown("Cannot clear while scan is ongoing, close it first.", FALSE)
        ELSE LET fps == IF configuration.fps # Undefined /\ configuration.fps[1] # 0
                        THEN configuration.fps[1] ELSE SCAN_DEFAULT_FPS
                 isShadedBoxEnabled == configuration.qrbox # Undefined
                 width == clientWidth
             IN  IF isShadedBoxEnabled /\ configuration.qrbox[1] < MIN_QR_BOX_SIZE
                 THEN thrown("minimum size of 'config.qrbox' is 50px.", TRUE)
                 ELSE IF isShadedBoxEnabled /\ configuration.qrbox[1] > width
                 THEN thrown("'config.qrbox' should not be greater than the width of the HTML element.", TRUE)
                 ELSE [threw |-> "", cleared |-> TRUE, requested |-> TRUE,
                       inserted |-> 0, fps |-> fps]

\* the synchronous part of start(): the argument checks, _clearElement(), the
\* merged configuration, the qrbox checks, the camera request.  threw: the
\* message thrown, or ""; cleared: the container was emptied; requested: a
\* camera stream was asked for; inserted: elements appended; fps: config.fps
startSync(isScanning, cameraId, qrCodeSuccessCallback, configuration, clientWidth) ==
    LET thrown(m, cleared) ==
            [threw |-> m, cleared |-> cleared, requested |-> FALSE, inserted |-> 0, fps |-> 0]
    IN  IF cameraId = "" THEN thrown("cameraId is required", FALSE)
        ELSE IF qrCodeSuccessCallback # "function"
        THEN thrown("qrCodeSuccessCallback is required and should be a function.", FALSE)
        ELSE IF isScanning
        THEN thrown("Cannot clear while scan is ongoing, close it first.", FALSE)
        ELSE LET fps == IF configuration.fps # Undefined /\ configuration.fps[1] # 0
                        THEN configuration.fps[1] ELSE SCAN_DEFAULT_FPS
                 isShadedBoxEnabled == configuration.qrbox # Undefined
                 width == IF clientWidth # 0 THEN clientWidth ELSE DEFAULT_WIDTH
             IN  IF isShadedBoxEnabled /\ configuration.qrbox[1] < MIN_QR_BOX_SIZE
                 THEN thrown("minimum size of 'config.qrbox' is 50px.", TRUE)
                 ELSE IF isShadedBoxEnabled /\ configuration.qrbox[1] > width
                 THEN thrown("'config.qrbox' should not be greater than the width of the HTML element.", TRUE)
                 ELSE [threw |-> "", cleared |-> TRUE, requested |-> TRUE,
                       inserted |-> 0, fps |-> fps]

\* _getTimeoutFps as fps milliseconds
getTimeoutFpsLinear(fps) == Num(fps)

\* _getTimeoutFps(fps)
getTimeoutFps(fps) == Div(Num(1000), Num(fps))

\* start(cameraId, configuration, qrCodeSuccessCallback, qrCodeErrorCallback)
StartCall ==
    /\ conf.stage = "in"
    /\ LET r == startSync(conf.isScanning, conf.cameraId, conf.qrCodeSuccessCallback,
                          conf.configuration, conf.clientWidth)
       IN  conf' = [conf EXCEPT !.stage = IF r.threw = "" THEN "started" ELSE "threw",
                                !.out = r]
    /\ UNCHANGED <<scanVars, geo, fit, cam>>

\* a run of foreverScan of the started scan that samples (dec: what the decoder
\* did) or finds no stream ("idle"), and re-arms the timer
Tick(dec) ==
    /\ conf.stage = "started"
    /\ Len(conf.delays) < MaxTicks
    /\ conf' = [conf EXCEPT !.delays = Append(@, getTimeoutFps(conf.out.fps)),
                            !.decs = Append(@, dec)]
    /\ UNCHANGED <<scanVars, geo, fit, cam>>

\* the video of the started call fires 'playing', rendered by the browser at
\* videoWidth x videoHeight: setupUi(videoElement.clientWidth, videoElement.clientHeight)
VideoPlays(videoWidth, videoHeight) ==
    /\ conf.stage = "started" /\ conf.delays = <<>>
    /\ LET q == conf.configuration.qrbox
       IN  conf' = [conf EXCEPT !.stage = "ui",
                      !.out = [videoWidth |-> videoWidth, videoHeight |-> videoHeight,
                               ui |-> setupUiRegion(videoWidth, videoHeight,
                                         IF q = Undefined THEN 0 ELSE q[1])]]
    /\ UNCHANGED <<scanVars, geo, fit, cam>>

ConfNext ==
    \/ StartCall
    \/ \E dec \in DecodeOutcomes \cup {"idle"} : Tick(dec)
    \/ \E videoWidth \in Sizes \ {0}, videoHeight \in Sizes \ {0} :
          VideoPlays(videoWidth, videoHeight)

ConfSpecInit == ScanInit /\ userMedia = TRUE /\ geo = Off /\ fit = Off /\ cam = Off /\ ConfInit

ConfSpec == ConfSpecInit /\ [][ConfNext]_vars

ValidationMessages ==
    {"cameraId is required",
     "qrCodeSuccessCallback is required and should be a function.",
     "minimum size of 'config.qrbox' is 50px.",
     "'config.qrbox' should not be greater than the width of the HTML element."}

\* C12: start() throws on validation, without asking for a camera stream and
\* without inserting an element, exactly when cameraId is missing, the success
\* callback is missing or not a function, config.qrbox is given and below
\* MIN_QR_BOX_SIZE, or config.qrbox is above the container width (clientWidth,
\* or 300 when that is 0).
C12_ValidatesBeforeCamera ==
    conf.stage \in {"started", "threw"} =>
        LET q == conf.configuration.qrbox
            width == IF conf.clientWidth = 0 THEN 300 ELSE conf.clientWidth
            invalid == \/ conf.cameraId = ""
                       \/ conf.qrCodeSuccessCallback # "function"
                       \/ q # Undefined /\ q[1] < 50
                       \/ q # Undefined /\ q[1] > width
        IN  /\ invalid => conf.out.threw # ""
            /\ (invalid /\ ~conf.isScanning) => conf.out.threw \in ValidationMessages
            /\ ~invalid => conf.out.threw \notin ValidationMessages
            /\ conf.out.threw # "" => ~conf.out.requested /\ conf.out.inserted = 0
            /\ (~invalid /\ ~conf.isScanning) => conf.out.threw = "" /\ conf.out.requested

\* a qrbox above the minimum, accepted against the default width of a
\* container whose clientWidth is 0
C12_Witness ==
    /\ conf.stage = "started" /\ conf.clientWidth = 0
    /\ conf.configuration.qrbox = Given(DEFAULT_WIDTH)

C17_RegionByOneRule ==
    conf.stage = "ui" =>
        LET q == conf.configuration.qrbox
            W == conf.out.videoWidth
            H == conf.out.videoHeight
            ui == conf.out.ui
        IN  /\ ~ui.threw
            /\ IF q # Undefined /\ q[1] <= H
               THEN /\ ui.qrRegion.width = Num(q[1]) /\ ui.qrRegion.height = Num(q[1])
                    /\ Mul(Num(2), ui.qrRegion.x) = Num(W - q[1])
                    /\ Mul(Num(2), ui.qrRegion.y) = Num(H - q[1])
                    /\ Len(ui.shades) =
                          (IF ui.qrRegion.x = Num(0) /\ ui.qrRegion.y = Num(0) THEN 0 ELSE 4)
               ELSE /\ ui.qrRegion.x = Num(0) /\ ui.qrRegion.y = Num(0)
                    /\ ui.qrRegion.width = Num(W) /\ ui.qrRegion.height = Num(H)
                    /\ ui.shades = <<>>
            /\ ui.canvas.width = ui.qrRegion.width
            /\ ui.canvas.height = ui.qrRegion.height

=============================================================================
